---- MODULE Spec2Model ----
(***************************************************************************)
(* Model of src/src/evs_automation.py: the named-pipe channel              *)
(* (_EvsProcess), its request/response calls, and the two scoped session   *)
(* flows start_new and connect_to_existing.                                *)
(*                                                                         *)
(* The remote application, the operating system (CreateFile,               *)
(* SetNamedPipeHandleState, ReadFile, WriteFile, the process table) and    *)
(* the code inside the caller's "with" block are the environment: their    *)
(* choices are nondeterministic.                                           *)
(***************************************************************************)
EXTENDS Integers, Sequences, FiniteSets, TLC

\* ------------------------------------------------------------------ bounds
\* Session flows: seconds the remote may take to create its pipe, and the
\* largest startup timeout the caller passes.
MaxPipeDelay == 1
MaxTimeout == 1
\* The constructor alone: the same two, large enough to outlast phase 1.
OpenMaxPipeDelay == 6
OpenMaxTimeout == 3
\* The constructor alone, any timeout: how many negative timeouts are tried.
OpenNegTimeouts == 2
\* RPC calls the caller's scope issues.
MaxCalls == 2
\* The locator alone: running processes psutil enumerates.
MaxProcs == 3
\* The scope alone: RPC calls the caller's scope issues.
ScopeMaxCalls == 3
\* close() calls the caller's scope issues.
MaxCloses == 2

\* --------------------------------------------------------------- constants
\* _EvsProcess._bufferSize
_bufferSize == 8192 * 8
\* attempts_remaining = 5 (phase 1)
Phase1Attempts == 5
\* process id of the child started by subprocess.Popen
ChildPid == 4242
\* psutil process table of the machine: <<pid, name>> in enumeration order
ProcessTables ==
    { << [pid |-> 11, name |-> "other.exe"] >>,
      << [pid |-> 22, name |-> "EarthVolumetricStudio.exe"],
         [pid |-> 33, name |-> "EarthVolumetricStudio.exe"],
         [pid |-> 11, name |-> "other.exe"] >> }
\* pid arguments of connect_to_existing: -1 (find the process), a dead pid
PidHints == {-1, 99}
\* The locator alone: the pids and names of running processes, every
\* enumeration of up to MaxProcs of them (a pid names one process), and the
\* pid arguments: -1, pids that may be running, a pid that is not
LocateEntries ==
    [pid : {11, 22, 33}, name : {"EarthVolumetricStudio.exe", "other.exe"}]
LocateTables ==
    {t \in UNION {[1..n -> LocateEntries] : n \in 0..MaxProcs} :
        \A i, j \in 1..Len(t) : t[i].pid = t[j].pid => i = j}
LocateHints == {-1, 11, 22, 99}

\* ------------------------------------------------------------- exceptions
NoExc == [type |-> "None", msg |-> ""]
ProcessNotFound ==
    [type |-> "ValueError",
     msg |-> "EVS Process not found. Please specify Process ID or guarantee that EVS is already running."]
InvalidProcessId ==
    [type |-> "ValueError", msg |-> "Invalid Process ID specified. EVS Process not found."]
ConnectionRefused ==
    [type |-> "ValueError",
     msg |-> "Invalid Process ID specified. EVS Process not found or connection refused."]
UnsupportedApiVersion ==
    [type |-> "ValueError", msg |-> "EVS does not support proper API version for this release."]
InstallationNotFound == [type |-> "ValueError", msg |-> "EVS Installation Not Found"]
CanceledByUser == [type |-> "CanceledByUser", msg |-> "Script canceled by user."]
RemoteError(m) == [type |-> "ValueError", msg |-> m]
\* json.loads / bytes.decode failing on what was read
ParseFailure == [type |-> "JSONDecodeError", msg |-> "malformed response"]
\* win32file.WriteFile / ReadFile failing (no handle, or the pipe is broken)
TransportFailure == [type |-> "pywintypes.error", msg |-> "pipe"]
\* an exception of the caller's own code inside the scope
CallerError == [type |-> "CallerError", msg |-> "raised by the caller"]

\* ------------------------------------------------------------ JSON values
\* Values are written as their JSON text.
ErrorStrings == {"bad module"}
ValuesOf(method) ==
    CASE method = "Version" -> {"1.0", "2.0", "0.9"}
      [] method = "CheckCancel" -> {"true", "false"}
      [] method = "GetModules" -> {"[1,2]", "[]"}
      [] OTHER -> {"null"}
\* Python truth value of a decoded JSON value
Truthy(v) == v \notin {"false", "null", "0", "0.0", "[]", "{}"}
\* a check that lets every version from 1.0 up through
BelowOne(v) == v \notin {"1.0", "1", "true", "2.0"}

\* Python: v != 1.0
NotEqualOne(v) == v \notin {"1.0", "1", "true"}

ScopeMethods == {"GetModules", "CheckCancel"}

Min(a, b) == IF a <= b THEN a ELSE b

VARIABLES
    flow,                \* "start_new" | "connect_to_existing"
    auto_shutdown, auto_wait_for_ready, timeout, pidHint, procs,
    pipeAfter,           \* CreateFile calls that fail before the remote's pipe exists
    callBudget,          \* RPC calls the caller's scope is going to issue at most
    pc,                  \* position of the flow
    attempts_remaining,  \* local of _EvsProcess.__init__
    handle,              \* self.__handle: "None" | "open"
    pid,                 \* self.__pid (0 stands for None)
    osHandles,           \* pipe handles this flow holds open in the OS
    opened,              \* CreateFile calls that returned a handle
    released,            \* handle.close() calls made
    attempts1, sleeps1,  \* CreateFile attempts / sleeps of phase 1
    attempts2, sleeps2,  \* SetNamedPipeHandleState attempts / sleeps of phase 2
    settled,             \* the time.sleep(1.0) of start_new ran
    sent,                \* request frames written, in order
    answered,            \* requests the remote has answered
    remoteAlive,         \* the remote still serves the pipe
    pipe,                \* response bytes waiting in the pipe, as frames
    io,                  \* "idle" | "reading" (blocked in ReadFile)
    lastRead,            \* what the last __read consumed
    lastCall,            \* response and outcome of the last __build_result
    lastClose,           \* return value of the last close(): "none" | "True" | "False"
    closeCalls,          \* close() calls made on the channel so far
    scopeCalls,          \* RPC calls so far, by the caller's scope
    scopeEntered,        \* the session was yielded to the caller
    scopeExc,            \* the exception that left the caller's scope
    raised               \* the exception that left the flow

flowVars ==
    <<flow, auto_shutdown, auto_wait_for_ready, timeout, pidHint, procs, pipeAfter, callBudget>>
openVars == <<attempts_remaining, attempts1, sleeps1, attempts2, sleeps2, settled, opened>>
chanVars == <<handle, pid, osHandles, released, lastClose, closeCalls>>
wireVars == <<sent, answered, remoteAlive, pipe, io, lastRead, lastCall>>
scopeVars == <<scopeCalls, scopeEntered, scopeExc>>
vars == <<flowVars, openVars, chanVars, wireVars, scopeVars, pc, raised>>

NoRead == [call |-> 0, req |-> 0, from |-> 0, to |-> 0, size |-> 0]
NoResult == [kind |-> "none", value |-> "", exc |-> NoExc]
NoResponse == [wf |-> FALSE, Success |-> "", Value |-> "", Error |-> ""]
NoCall == [method |-> "", parsed |-> FALSE, resp |-> NoResponse, result |-> NoResult]

Return(v) == [kind |-> "return", value |-> v, exc |-> NoExc]
Raise(e) == [kind |-> "raise", value |-> "", exc |-> e]

\* ------------------------------------------------------- process locator
\* a scan that keeps the first match instead of the last
RECURSIVE ScanProcessesKeepsFirst(_, _, _)
ScanProcessesKeepsFirst(table, i, process) ==
    IF i > Len(table) THEN process
    ELSE ScanProcessesKeepsFirst(table, i + 1,
            IF table[i].name = "EarthVolumetricStudio.exe" /\ process = 0
            THEN table[i].pid ELSE process)

\* for proc in psutil.process_iter(): if proc.name() == ...: process = proc
RECURSIVE ScanProcesses(_, _, _)
ScanProcesses(table, i, process) ==
    IF i > Len(table) THEN process
    ELSE ScanProcesses(table, i + 1,
            IF table[i].name = "EarthVolumetricStudio.exe" THEN table[i].pid ELSE process)

\* psutil.Process(pid) succeeds iff the pid names a running process
IsLive(table, p) == \E i \in 1..Len(table) : table[i].pid = p

\* _set_or_find_pid(pid): 0 stands for process == None
_set_or_find_pid(table, hint) ==
    IF hint = -1
    THEN LET process == ScanProcesses(table, 1, 0)
         IN IF process = 0 THEN [ok |-> FALSE, pid |-> 0, exc |-> ProcessNotFound]
            ELSE [ok |-> TRUE, pid |-> process, exc |-> NoExc]
    ELSE IF IsLive(table, hint) THEN [ok |-> TRUE, pid |-> hint, exc |-> NoExc]
         ELSE [ok |-> FALSE, pid |-> 0, exc |-> InvalidProcessId]

\* ------------------------------------------------------------ the channel
\* _EvsProcess.__init__, lines 90-94: the fields and the phase-1 counter
EnterInit(p) ==
    /\ handle' = "None"
    /\ pid' = p
    /\ attempts_remaining' = Phase1Attempts
    /\ pc' = "phase1"

\* close without the test of line 183: releases whatever it is given
closeUnguarded ==
    /\ closeCalls' = closeCalls + 1
    /\ handle' = "None"
    /\ pid' = 0
    /\ osHandles' = osHandles - 1
    /\ released' = released + 1
    /\ lastClose' = "True"

\* _EvsProcess.close
close ==
    /\ closeCalls' = closeCalls + 1
    /\ IF handle = "None"
       THEN /\ lastClose' = "False"
            /\ UNCHANGED <<handle, pid, osHandles, released>>
       ELSE /\ handle' = "None"
            /\ pid' = 0
            /\ osHandles' = osHandles - 1
            /\ released' = released + 1
            /\ lastClose' = "True"

\* WriteFile that raises on a broken pipe only and accepts a handle of None
WriteRaisesOnBrokenPipeOnly == ~remoteAlive

\* win32file.WriteFile raises: no handle, or nobody serves the pipe
WriteRaises == handle = "None" \/ ~remoteAlive

\* _EvsProcess.__write / __send_json: one request frame
Write(method, by) == sent' = Append(sent, [method |-> method, by |-> by])

\* ReadFile returns (or raises) once there are bytes, or the pipe is broken
CanRead == pipe # << >> \/ ~remoteAlive

\* bytes one ReadFile call takes from the frame at the head of the pipe
ReadCount(f) == Min(f.size - f.off, _bufferSize)

\* _EvsProcess.__read: (success, resp) = ReadFile(handle, _bufferSize); the
\* first component (ERROR_MORE_DATA when the message is longer than the
\* buffer) is dropped, the rest of the message stays in the pipe.
ReadData ==
    LET f == Head(pipe)
    IN [call |-> Len(sent), req |-> f.req, from |-> f.off,
        to |-> f.off + ReadCount(f), size |-> f.size]

PipeAfterRead ==
    LET f == Head(pipe)
    IN IF f.off + ReadCount(f) = f.size THEN Tail(pipe)
       ELSE <<[f EXCEPT !.off = f.off + ReadCount(f)]>> \o Tail(pipe)

\* _EvsProcess.__recv_json: json.loads of what was read; only a whole,
\* well-formed message decodes
Decodes(f, d) == f.wf /\ d.from = 0 /\ d.to = d.size

Parsed(f) == [wf |-> TRUE, Success |-> f.Success, Value |-> f.Value, Error |-> f.Error]

\* the envelope opened by the truth of its Value instead of its Success
BuildResultByValue(res) ==
    IF Truthy(res.Value) THEN Return(res.Value) ELSE Raise(RemoteError(res.Error))

\* _EvsProcess.__build_result, lines 148-151
__build_result(res) ==
    IF Truthy(res.Success) THEN Return(res.Value) ELSE Raise(RemoteError(res.Error))

\* outcome of __build_result(method) once ReadFile returns
CallResult ==
    IF pipe = << >> THEN Raise(TransportFailure)
    ELSE IF Decodes(Head(pipe), ReadData) THEN __build_result(Parsed(Head(pipe)))
         ELSE Raise(ParseFailure)

\* a check_cancel that takes every failure of its call for a cancellation
check_cancel_on_failure(r) ==
    IF r.kind = "return"
    THEN IF Truthy(r.value) THEN Raise(CanceledByUser) ELSE Return("None")
    ELSE Raise(CanceledByUser)

\* _EvsProcess.check_cancel, lines 449-451
check_cancel(r) ==
    IF r.kind = "return"
    THEN IF Truthy(r.value) THEN Raise(CanceledByUser) ELSE Return("None")
    ELSE r

\* the receive half of a call: consume from the pipe, record the outcome
Receive(method) ==
    /\ io' = "idle"
    /\ IF pipe = << >>
       THEN /\ lastRead' = NoRead
            /\ lastCall' = [method |-> method, parsed |-> FALSE,
                            resp |-> NoResponse, result |-> CallResult]
            /\ UNCHANGED pipe
       ELSE /\ lastRead' = ReadData
            /\ pipe' = PipeAfterRead
            /\ lastCall' = [method |-> method,
                            parsed |-> Decodes(Head(pipe), ReadData),
                            resp |-> IF Decodes(Head(pipe), ReadData)
                                     THEN Parsed(Head(pipe)) ELSE NoResponse,
                            result |-> CallResult]
    /\ UNCHANGED <<sent, answered, remoteAlive>>

\* the send half of a call that gets its frame out
Send(method, by) ==
    /\ Write(method, by)
    /\ io' = "reading"
    /\ UNCHANGED <<answered, remoteAlive, pipe, lastRead, lastCall>>

\* the send half when WriteFile raises: the call fails at once
SendFails(method) ==
    /\ lastCall' = [method |-> method, parsed |-> FALSE,
                    resp |-> NoResponse, result |-> Raise(TransportFailure)]
    /\ UNCHANGED <<sent, answered, remoteAlive, pipe, io, lastRead>>

\* ----------------------------------------------------------------- remote
ResponseBodies(method) ==
    {[wf |-> TRUE, Success |-> "true", Value |-> v, Error |-> ""] : v \in ValuesOf(method)}
    \cup {[wf |-> TRUE, Success |-> "false", Value |-> "", Error |-> e] : e \in ErrorStrings}
    \cup {[wf |-> FALSE, Success |-> "", Value |-> "", Error |-> ""]}

\* every body in a message that fits one read exactly; a successful answer
\* also one byte longer than that
Responses(method) ==
    {[body |-> b, size |-> _bufferSize] : b \in ResponseBodies(method)}
    \cup {[body |-> b, size |-> _bufferSize + 1] :
             b \in {x \in ResponseBodies(method) : x.wf /\ x.Success = "true"}}

Frame(n, body, size) ==
    [req |-> n, size |-> size, off |-> 0, wf |-> body.wf,
     Success |-> body.Success, Value |-> body.Value, Error |-> body.Error]

\* the remote answers its oldest unanswered request with one message
RemoteResponds ==
    /\ answered < Len(sent)
    /\ remoteAlive
    /\ osHandles > 0
    /\ \E r \in Responses(sent[answered + 1].method) :
          pipe' = Append(pipe, Frame(answered + 1, r.body, r.size))
    /\ answered' = answered + 1
    /\ UNCHANGED <<sent, remoteAlive, io, lastRead, lastCall>>
    /\ UNCHANGED <<flowVars, openVars, chanVars, scopeVars, pc, raised>>

\* the remote goes away with a request unanswered (it crashed, or it obeyed
\* Shutdown before answering)
RemoteDies ==
    /\ answered < Len(sent)
    /\ remoteAlive
    /\ remoteAlive' = FALSE
    /\ UNCHANGED <<sent, answered, pipe, io, lastRead, lastCall>>
    /\ UNCHANGED <<flowVars, openVars, chanVars, scopeVars, pc, raised>>

\* ------------------------------------------------------------------ flows
Init ==
    /\ flow \in {"start_new", "connect_to_existing"}
    /\ auto_shutdown \in BOOLEAN
    /\ auto_wait_for_ready \in BOOLEAN
    /\ timeout \in 0..MaxTimeout
    /\ pipeAfter \in 0..MaxPipeDelay
    /\ callBudget = MaxCalls
    /\ IF flow = "connect_to_existing"
       THEN pidHint \in PidHints /\ procs \in ProcessTables
       ELSE pidHint = -1 /\ procs = << >>
    /\ pc = "start"
    /\ attempts_remaining = 0
    /\ handle = "None" /\ pid = 0 /\ osHandles = 0 /\ opened = 0 /\ released = 0
    /\ attempts1 = 0 /\ sleeps1 = 0 /\ attempts2 = 0 /\ sleeps2 = 0
    /\ settled = FALSE
    /\ sent = << >> /\ answered = 0 /\ remoteAlive = TRUE /\ pipe = << >>
    /\ io = "idle" /\ lastRead = NoRead /\ lastCall = NoCall
    /\ lastClose = "none" /\ closeCalls = 0 /\ scopeCalls = 0
    /\ scopeEntered = FALSE /\ scopeExc = NoExc /\ raised = NoExc

\* start_new, lines 527-530: the executable is found and started ...
Launch ==
    /\ flow = "start_new" /\ pc = "start"
    /\ pc' = "settle"
    /\ pid' = ChildPid
    /\ UNCHANGED <<handle, osHandles, released, lastClose, closeCalls>>
    /\ UNCHANGED <<flowVars, openVars, wireVars, scopeVars, raised>>

\* ... or _find_evs_executable_path raises
LaunchFails ==
    /\ flow = "start_new" /\ pc = "start"
    /\ pc' = "done"
    /\ raised' = InstallationNotFound
    /\ UNCHANGED <<flowVars, openVars, chanVars, wireVars, scopeVars>>

\* start_new, lines 531-532: time.sleep(1.0), then _EvsProcess(_pid, timeout)
Settle ==
    /\ pc = "settle"
    /\ settled' = TRUE
    /\ EnterInit(pid)
    /\ UNCHANGED <<attempts1, sleeps1, attempts2, sleeps2, opened>>
    /\ UNCHANGED <<osHandles, released, lastClose, closeCalls>>
    /\ UNCHANGED <<flowVars, wireVars, scopeVars, raised>>

\* connect_to_existing, lines 561-563
Locate ==
    /\ flow = "connect_to_existing" /\ pc = "start"
    /\ LET r == _set_or_find_pid(procs, pidHint)
       IN IF r.ok
          THEN /\ EnterInit(r.pid)
               /\ UNCHANGED raised
          ELSE /\ pc' = "done"
               /\ raised' = r.exc
               /\ UNCHANGED <<handle, pid, attempts_remaining>>
    /\ UNCHANGED <<attempts1, sleeps1, attempts2, sleeps2, settled, opened>>
    /\ UNCHANGED <<osHandles, released, lastClose, closeCalls>>
    /\ UNCHANGED <<flowVars, wireVars, scopeVars>>

\* __init__, lines 95-110: CreateFile raises, sleep one second, loop again
\* (attempts_remaining is not changed in this loop, so the loop is left only
\* through the break of CreateFileReturns)
CreateFileFails ==
    /\ pc = "phase1"
    /\ attempts_remaining > 0
    /\ sleeps1 < pipeAfter
    /\ attempts1' = attempts1 + 1
    /\ sleeps1' = sleeps1 + 1
    /\ UNCHANGED <<attempts_remaining, attempts2, sleeps2, settled, opened>>
    /\ UNCHANGED <<flowVars, chanVars, wireVars, scopeVars, pc, raised>>

\* __init__, lines 97-107 and 112-113: CreateFile returns a handle, break,
\* and phase 2 starts with attempts_remaining = timeout
CreateFileReturns ==
    /\ pc = "phase1"
    /\ attempts_remaining > 0
    /\ sleeps1 >= pipeAfter
    /\ attempts1' = attempts1 + 1
    /\ handle' = "open"
    /\ osHandles' = osHandles + 1
    /\ opened' = opened + 1
    /\ attempts_remaining' = timeout
    /\ pc' = "phase2"
    /\ UNCHANGED <<sleeps1, attempts2, sleeps2, settled>>
    /\ UNCHANGED <<pid, released, lastClose, closeCalls>>
    /\ UNCHANGED <<flowVars, wireVars, scopeVars, raised>>

\* phase 2 counting a failed attempt twice
SetModeFailsCountsTwice ==
    /\ pc = "phase2"
    /\ attempts_remaining > 0
    /\ attempts2' = attempts2 + 1
    /\ sleeps2' = sleeps2 + 1
    /\ attempts_remaining' = attempts_remaining - 2
    /\ UNCHANGED <<attempts1, sleeps1, settled, opened>>
    /\ UNCHANGED <<flowVars, chanVars, wireVars, scopeVars, pc, raised>>

\* __init__, lines 114-118: SetNamedPipeHandleState returns 0
SetModeFails ==
    /\ pc = "phase2"
    /\ attempts_remaining > 0
    /\ attempts2' = attempts2 + 1
    /\ sleeps2' = sleeps2 + 1
    /\ attempts_remaining' = attempts_remaining - 1
    /\ UNCHANGED <<attempts1, sleeps1, settled, opened>>
    /\ UNCHANGED <<flowVars, chanVars, wireVars, scopeVars, pc, raised>>

\* a phase 2 that tries once before it looks at its counter
SetModeSucceedsUntested ==
    /\ pc = "phase2"
    /\ attempts2' = attempts2 + 1
    /\ pc' = "version"
    /\ UNCHANGED <<attempts_remaining, attempts1, sleeps1, sleeps2, settled, opened>>
    /\ UNCHANGED <<flowVars, chanVars, wireVars, scopeVars, raised>>

\* __init__, lines 114-121: SetNamedPipeHandleState succeeds, the
\* constructor returns and the flow enters its try block
SetModeSucceeds ==
    /\ pc = "phase2"
    /\ attempts_remaining > 0
    /\ attempts2' = attempts2 + 1
    /\ pc' = "version"
    /\ UNCHANGED <<attempts_remaining, attempts1, sleeps1, sleeps2, settled, opened>>
    /\ UNCHANGED <<flowVars, chanVars, wireVars, scopeVars, raised>>

\* __init__, lines 114 and 123-124: the loop ends without success; the
\* constructor raises, so proc is never bound and the flow's try block is
\* never entered
OpenRefused ==
    /\ pc = "phase2"
    /\ attempts_remaining <= 0
    /\ pc' = "done"
    /\ raised' = ConnectionRefused
    /\ UNCHANGED <<flowVars, openVars, chanVars, wireVars, scopeVars>>

\* the except clause raising what its cleanup met instead of what it caught
ExceptLosesCause(e) ==
    /\ close
    /\ raised' = TransportFailure
    /\ pc' = "done"

\* the except clause re-raising without the close
ExceptWithoutClose(e) ==
    /\ UNCHANGED chanVars
    /\ raised' = e
    /\ pc' = "done"

\* except: proc.close(); raise   (lines 540-542 and 571-573)
Except(e) ==
    /\ close
    /\ raised' = e
    /\ pc' = "done"

\* a handshake that hands the session over without wait_for_ready
HandshakeDoneSkipsWait ==
    /\ pc' = "scope"
    /\ scopeEntered' = TRUE
    /\ UNCHANGED <<chanVars, raised>>

\* what leaves a finished handshake: lines 535-539
HandshakeDone ==
    /\ pc' = IF auto_wait_for_ready THEN "wait_ready" ELSE "scope"
    /\ scopeEntered' = ~auto_wait_for_ready
    /\ UNCHANGED <<chanVars, raised>>

\* proc.get_api_version() (line 534): the request is written
VersionSend ==
    /\ pc = "version" /\ io = "idle"
    /\ IF WriteRaises
       THEN /\ SendFails("Version")
            /\ Except(TransportFailure)
       ELSE /\ Send("Version", "lifecycle")
            /\ UNCHANGED <<chanVars, pc, raised>>
    /\ UNCHANGED <<flowVars, openVars, scopeVars>>

\* proc.get_api_version() returns or raises; version != 1.0 raises
VersionReturns ==
    /\ pc = "version" /\ io = "reading" /\ CanRead
    /\ Receive("Version")
    /\ IF CallResult.kind = "raise"
       THEN Except(CallResult.exc) /\ UNCHANGED scopeEntered
       ELSE IF NotEqualOne(CallResult.value)
            THEN Except(UnsupportedApiVersion) /\ UNCHANGED scopeEntered
            ELSE HandshakeDone
    /\ UNCHANGED <<flowVars, openVars, scopeCalls, scopeExc>>

\* proc.wait_for_ready() (line 538): the request is written
WaitForReadySend ==
    /\ pc = "wait_ready" /\ io = "idle"
    /\ IF WriteRaises
       THEN /\ SendFails("WaitForReady")
            /\ Except(TransportFailure)
       ELSE /\ Send("WaitForReady", "lifecycle")
            /\ UNCHANGED <<chanVars, pc, raised>>
    /\ UNCHANGED <<flowVars, openVars, scopeVars>>

\* proc.wait_for_ready() returns or raises; then yield proc
WaitForReadyReturns ==
    /\ pc = "wait_ready" /\ io = "reading" /\ CanRead
    /\ Receive("WaitForReady")
    /\ IF CallResult.kind = "raise"
       THEN Except(CallResult.exc) /\ UNCHANGED scopeEntered
       ELSE /\ pc' = "scope"
            /\ scopeEntered' = TRUE
            /\ UNCHANGED <<chanVars, raised>>
    /\ UNCHANGED <<flowVars, openVars, scopeCalls, scopeExc>>

\* ------------------------------------------------------ the caller's scope
\* the caller calls a method of the session: the request is written, or
\* WriteFile raises
ScopeCallSend ==
    /\ pc = "scope" /\ io = "idle"
    /\ scopeCalls < callBudget
    /\ scopeCalls' = scopeCalls + 1
    /\ \E m \in ScopeMethods :
          IF WriteRaises THEN SendFails(m) ELSE Send(m, "caller")
    /\ UNCHANGED <<flowVars, openVars, chanVars, pc, raised>>
    /\ UNCHANGED <<scopeEntered, scopeExc>>

\* a call that closes the channel when it fails
ScopeCallReturnsClosesOnFailure ==
    /\ pc = "scope" /\ io = "reading" /\ CanRead
    /\ Receive(sent[Len(sent)].method)
    /\ IF CallResult.kind = "raise" THEN close ELSE UNCHANGED chanVars
    /\ UNCHANGED <<flowVars, openVars, scopeVars, pc, raised>>

\* the caller's call returns or raises into the caller's code
ScopeCallReturns ==
    /\ pc = "scope" /\ io = "reading" /\ CanRead
    /\ Receive(sent[Len(sent)].method)
    /\ UNCHANGED <<flowVars, openVars, chanVars, scopeVars, pc, raised>>

\* what the caller's code gets from its last call
CallerSees ==
    IF lastCall.method = "CheckCancel" THEN check_cancel(lastCall.result)
    ELSE lastCall.result

\* the caller calls close() on the session itself
ScopeClose ==
    /\ pc = "scope" /\ io = "idle"
    /\ closeCalls < MaxCloses
    /\ close
    /\ UNCHANGED <<flowVars, openVars, wireVars, scopeVars, pc, raised>>

\* an exception leaves the caller's scope: one of its own, or the one its
\* last call raised
ScopeExceptions ==
    {CallerError} \cup (IF CallerSees.kind = "raise" THEN {CallerSees.exc} ELSE {})

\* lines 540-542 with the exception thrown in at the yield
ScopeRaises ==
    /\ pc = "scope" /\ io = "idle"
    /\ \E e \in ScopeExceptions :
          /\ scopeExc' = e
          /\ Except(e)
    /\ UNCHANGED <<flowVars, openVars, wireVars>>
    /\ UNCHANGED <<scopeCalls, scopeEntered>>

\* an else clause that calls shutdown() whatever auto_shutdown is
ScopeExitsAlwaysShutsDown ==
    /\ pc = "scope" /\ io = "idle"
    /\ pc' = "shutdown"
    /\ UNCHANGED chanVars
    /\ UNCHANGED <<flowVars, openVars, wireVars, scopeVars, raised>>

\* lines 543-546: the scope ends normally
ScopeExits ==
    /\ pc = "scope" /\ io = "idle"
    /\ IF auto_shutdown
       THEN /\ pc' = "shutdown"
            /\ UNCHANGED chanVars
       ELSE /\ close
            /\ pc' = "done"
    /\ UNCHANGED <<flowVars, openVars, wireVars, scopeVars, raised>>

\* proc.shutdown() (line 545): the request is written, or WriteFile
\* raises and the exception leaves the else clause
ShutdownSend ==
    /\ pc = "shutdown" /\ io = "idle"
    /\ IF WriteRaises
       THEN /\ SendFails("Shutdown")
            /\ pc' = "done"
            /\ raised' = TransportFailure
       ELSE /\ Send("Shutdown", "lifecycle")
            /\ UNCHANGED <<pc, raised>>
    /\ UNCHANGED <<flowVars, openVars, chanVars, scopeVars>>

\* proc.shutdown() returns, then proc.close() (line 546); or it
\* raises and the exception leaves the else clause
ShutdownReturns ==
    /\ pc = "shutdown" /\ io = "reading" /\ CanRead
    /\ Receive("Shutdown")
    /\ IF CallResult.kind = "raise"
       THEN /\ pc' = "done"
            /\ raised' = CallResult.exc
            /\ UNCHANGED chanVars
       ELSE /\ close
            /\ pc' = "done"
            /\ UNCHANGED raised
    /\ UNCHANGED <<flowVars, openVars, scopeVars>>

\* ------------------------------- connect_to_existing, lines 563-577
\* The definitions above from Except to ShutdownReturns are the body of
\* start_new (lines 532-546); these are the body of connect_to_existing.

\* except: proc.close(); raise   (lines 571-573)
ConnectExcept(e) ==
    /\ close
    /\ raised' = e
    /\ pc' = "done"

\* what leaves a finished handshake: lines 566-570
ConnectHandshakeDone ==
    /\ pc' = IF auto_wait_for_ready THEN "wait_ready" ELSE "scope"
    /\ scopeEntered' = ~auto_wait_for_ready
    /\ UNCHANGED <<chanVars, raised>>

\* proc.get_api_version() (line 565): the request is written
ConnectVersionSend ==
    /\ pc = "version" /\ io = "idle"
    /\ IF WriteRaises
       THEN /\ SendFails("Version")
            /\ ConnectExcept(TransportFailure)
       ELSE /\ Send("Version", "lifecycle")
            /\ UNCHANGED <<chanVars, pc, raised>>
    /\ UNCHANGED <<flowVars, openVars, scopeVars>>

\* proc.get_api_version() returns or raises; version != 1.0 raises (566-567)
ConnectVersionReturns ==
    /\ pc = "version" /\ io = "reading" /\ CanRead
    /\ Receive("Version")
    /\ IF CallResult.kind = "raise"
       THEN ConnectExcept(CallResult.exc) /\ UNCHANGED scopeEntered
       ELSE IF NotEqualOne(CallResult.value)
            THEN ConnectExcept(UnsupportedApiVersion) /\ UNCHANGED scopeEntered
            ELSE ConnectHandshakeDone
    /\ UNCHANGED <<flowVars, openVars, scopeCalls, scopeExc>>

\* proc.wait_for_ready() (line 569): the request is written
ConnectWaitForReadySend ==
    /\ pc = "wait_ready" /\ io = "idle"
    /\ IF WriteRaises
       THEN /\ SendFails("WaitForReady")
            /\ ConnectExcept(TransportFailure)
       ELSE /\ Send("WaitForReady", "lifecycle")
            /\ UNCHANGED <<chanVars, pc, raised>>
    /\ UNCHANGED <<flowVars, openVars, scopeVars>>

\* proc.wait_for_ready() returns or raises; then yield proc (line 570)
ConnectWaitForReadyReturns ==
    /\ pc = "wait_ready" /\ io = "reading" /\ CanRead
    /\ Receive("WaitForReady")
    /\ IF CallResult.kind = "raise"
       THEN ConnectExcept(CallResult.exc) /\ UNCHANGED scopeEntered
       ELSE /\ pc' = "scope"
            /\ scopeEntered' = TRUE
            /\ UNCHANGED <<chanVars, raised>>
    /\ UNCHANGED <<flowVars, openVars, scopeCalls, scopeExc>>

\* lines 571-573 with the exception thrown in at the yield
ConnectScopeRaises ==
    /\ pc = "scope" /\ io = "idle"
    /\ \E e \in ScopeExceptions :
          /\ scopeExc' = e
          /\ ConnectExcept(e)
    /\ UNCHANGED <<flowVars, openVars, wireVars>>
    /\ UNCHANGED <<scopeCalls, scopeEntered>>

\* an else clause that closes without ever asking the remote to shut down
ConnectScopeExitsNeverShutsDown ==
    /\ pc = "scope" /\ io = "idle"
    /\ close
    /\ pc' = "done"
    /\ UNCHANGED <<flowVars, openVars, wireVars, scopeVars, raised>>

\* lines 574-577: the scope ends normally
ConnectScopeExits ==
    /\ pc = "scope" /\ io = "idle"
    /\ IF auto_shutdown
       THEN /\ pc' = "shutdown"
            /\ UNCHANGED chanVars
       ELSE /\ close
            /\ pc' = "done"
    /\ UNCHANGED <<flowVars, openVars, wireVars, scopeVars, raised>>

\* proc.shutdown() (line 576): the request is written, or WriteFile raises
\* and the exception leaves the else clause
ConnectShutdownSend ==
    /\ pc = "shutdown" /\ io = "idle"
    /\ IF WriteRaises
       THEN /\ SendFails("Shutdown")
            /\ pc' = "done"
            /\ raised' = TransportFailure
       ELSE /\ Send("Shutdown", "lifecycle")
            /\ UNCHANGED <<pc, raised>>
    /\ UNCHANGED <<flowVars, openVars, chanVars, scopeVars>>

\* proc.shutdown() returns, then proc.close() (line 577); or it raises and
\* the exception leaves the else clause
ConnectShutdownReturns ==
    /\ pc = "shutdown" /\ io = "reading" /\ CanRead
    /\ Receive("Shutdown")
    /\ IF CallResult.kind = "raise"
       THEN /\ pc' = "done"
            /\ raised' = CallResult.exc
            /\ UNCHANGED chanVars
       ELSE /\ close
            /\ pc' = "done"
            /\ UNCHANGED raised
    /\ UNCHANGED <<flowVars, openVars, scopeVars>>

\* the generator of start_new from its try statement on (lines 533-546)
StartNewBody ==
    \/ VersionSend \/ VersionReturns
    \/ WaitForReadySend \/ WaitForReadyReturns
    \/ ScopeRaises \/ ScopeExits
    \/ ShutdownSend \/ ShutdownReturns

\* the generator of connect_to_existing from its try statement on (564-577)
ConnectBody ==
    \/ ConnectVersionSend \/ ConnectVersionReturns
    \/ ConnectWaitForReadySend \/ ConnectWaitForReadyReturns
    \/ ConnectScopeRaises \/ ConnectScopeExits
    \/ ConnectShutdownSend \/ ConnectShutdownReturns

Next ==
    \/ Launch \/ LaunchFails \/ Settle \/ Locate
    \/ CreateFileFails \/ CreateFileReturns
    \/ SetModeFails \/ SetModeSucceeds \/ OpenRefused
    \/ (flow = "start_new" /\ VersionSend)
    \/ (flow = "start_new" /\ VersionReturns)
    \/ (flow = "start_new" /\ WaitForReadySend)
    \/ (flow = "start_new" /\ WaitForReadyReturns)
    \/ (flow = "start_new" /\ ScopeRaises)
    \/ (flow = "start_new" /\ ScopeExits)
    \/ (flow = "start_new" /\ ShutdownSend)
    \/ (flow = "start_new" /\ ShutdownReturns)
    \/ (flow = "connect_to_existing" /\ ConnectVersionSend)
    \/ (flow = "connect_to_existing" /\ ConnectVersionReturns)
    \/ (flow = "connect_to_existing" /\ ConnectWaitForReadySend)
    \/ (flow = "connect_to_existing" /\ ConnectWaitForReadyReturns)
    \/ (flow = "connect_to_existing" /\ ConnectScopeRaises)
    \/ (flow = "connect_to_existing" /\ ConnectScopeExits)
    \/ (flow = "connect_to_existing" /\ ConnectShutdownSend)
    \/ (flow = "connect_to_existing" /\ ConnectShutdownReturns)
    \/ ScopeCallSend \/ ScopeCallReturns \/ ScopeClose
    \/ RemoteResponds \/ RemoteDies

Spec == Init /\ [][Next]_vars

\* ---------------------------------------------- the constructor on its own
\* _EvsProcess(pid, timeout) from its first line, for every timeout and every
\* delay of the remote's pipe
InitOpen ==
    /\ flow \in {"start_new", "connect_to_existing"}
    /\ auto_shutdown = (flow = "start_new")
    /\ auto_wait_for_ready = TRUE
    /\ timeout \in 0..OpenMaxTimeout
    /\ pipeAfter \in 0..OpenMaxPipeDelay
    /\ callBudget = MaxCalls
    /\ pidHint = -1 /\ procs = << >>
    /\ pc = "phase1"
    /\ attempts_remaining = Phase1Attempts
    /\ handle = "None" /\ pid = ChildPid /\ osHandles = 0 /\ opened = 0 /\ released = 0
    /\ attempts1 = 0 /\ sleeps1 = 0 /\ attempts2 = 0 /\ sleeps2 = 0
    /\ settled = (flow = "start_new")
    /\ sent = << >> /\ answered = 0 /\ remoteAlive = TRUE /\ pipe = << >>
    /\ io = "idle" /\ lastRead = NoRead /\ lastCall = NoCall
    /\ lastClose = "none" /\ closeCalls = 0 /\ scopeCalls = 0
    /\ scopeEntered = FALSE /\ scopeExc = NoExc /\ raised = NoExc

NextOpen ==
    \/ CreateFileFails \/ CreateFileReturns
    \/ SetModeFails \/ SetModeSucceeds \/ OpenRefused

SpecOpen == InitOpen /\ [][NextOpen]_vars

\* ------------------------------- the constructor, any timeout argument
\* _EvsProcess(pid, timeout) from its first line, for timeouts below zero too
InitOpenAny ==
    /\ flow \in {"start_new", "connect_to_existing"}
    /\ auto_shutdown = (flow = "start_new")
    /\ auto_wait_for_ready = TRUE
    /\ timeout \in (0 - OpenNegTimeouts)..OpenMaxTimeout
    /\ pipeAfter \in 0..OpenMaxPipeDelay
    /\ callBudget = MaxCalls
    /\ pidHint = -1 /\ procs = << >>
    /\ pc = "phase1"
    /\ attempts_remaining = Phase1Attempts
    /\ handle = "None" /\ pid = ChildPid /\ osHandles = 0 /\ opened = 0 /\ released = 0
    /\ attempts1 = 0 /\ sleeps1 = 0 /\ attempts2 = 0 /\ sleeps2 = 0
    /\ settled = (flow = "start_new")
    /\ sent = << >> /\ answered = 0 /\ remoteAlive = TRUE /\ pipe = << >>
    /\ io = "idle" /\ lastRead = NoRead /\ lastCall = NoCall
    /\ lastClose = "none" /\ closeCalls = 0 /\ scopeCalls = 0
    /\ scopeEntered = FALSE /\ scopeExc = NoExc /\ raised = NoExc

SpecOpenAny == InitOpenAny /\ [][NextOpen]_vars

\* ------------------------------------------------- the scope alone
\* The state in which either flow hands the session to the caller when
\* auto_wait_for_ready is off: the pipe opened at the first attempt, Version
\* asked once and answered 1.0 in a message that fits one read.
ScopeStart(budget) ==
    /\ flow \in {"start_new", "connect_to_existing"}
    /\ auto_shutdown \in BOOLEAN
    /\ auto_wait_for_ready = FALSE
    /\ timeout = 1
    /\ pipeAfter = 0
    /\ callBudget = budget
    /\ IF flow = "connect_to_existing"
       THEN /\ pidHint = -1 /\ procs = CHOOSE t \in ProcessTables : Len(t) = 3
            /\ pid = _set_or_find_pid(procs, pidHint).pid
            /\ settled = FALSE
       ELSE /\ pidHint = -1 /\ procs = << >>
            /\ pid = ChildPid
            /\ settled = TRUE
    /\ pc = "scope"
    /\ attempts_remaining = 1
    /\ handle = "open" /\ osHandles = 1 /\ opened = 1 /\ released = 0
    /\ attempts1 = 1 /\ sleeps1 = 0 /\ attempts2 = 1 /\ sleeps2 = 0
    /\ sent = <<[method |-> "Version", by |-> "lifecycle"]>>
    /\ answered = 1 /\ remoteAlive = TRUE /\ pipe = << >>
    /\ io = "idle"
    /\ lastRead = [call |-> 1, req |-> 1, from |-> 0,
                   to |-> _bufferSize, size |-> _bufferSize]
    /\ lastCall = [method |-> "Version", parsed |-> TRUE,
                   resp |-> [wf |-> TRUE, Success |-> "true",
                             Value |-> "1.0", Error |-> ""],
                   result |-> Return("1.0")]
    /\ lastClose = "none" /\ closeCalls = 0 /\ scopeCalls = 0
    /\ scopeEntered = TRUE /\ scopeExc = NoExc /\ raised = NoExc

InitScope == ScopeStart(ScopeMaxCalls)

NextScope ==
    \/ ScopeCallSend \/ ScopeCallReturns \/ ScopeClose
    \/ (flow = "start_new" /\ ScopeRaises)
    \/ (flow = "start_new" /\ ScopeExits)
    \/ (flow = "start_new" /\ ShutdownSend)
    \/ (flow = "start_new" /\ ShutdownReturns)
    \/ (flow = "connect_to_existing" /\ ConnectScopeRaises)
    \/ (flow = "connect_to_existing" /\ ConnectScopeExits)
    \/ (flow = "connect_to_existing" /\ ConnectShutdownSend)
    \/ (flow = "connect_to_existing" /\ ConnectShutdownReturns)
    \/ RemoteResponds \/ RemoteDies

SpecScope == InitScope /\ [][NextScope]_vars

\* ------------------------------------------------ the locator alone
\* connect_to_existing up to the end of line 561, for every enumeration and
\* pid argument
InitLocate ==
    /\ flow = "connect_to_existing"
    /\ auto_shutdown = FALSE
    /\ auto_wait_for_ready = TRUE
    /\ timeout = 0
    /\ pipeAfter = 0
    /\ callBudget = MaxCalls
    /\ pidHint \in LocateHints /\ procs \in LocateTables
    /\ pc = "start"
    /\ attempts_remaining = 0
    /\ handle = "None" /\ pid = 0 /\ osHandles = 0 /\ opened = 0 /\ released = 0
    /\ attempts1 = 0 /\ sleeps1 = 0 /\ attempts2 = 0 /\ sleeps2 = 0
    /\ settled = FALSE
    /\ sent = << >> /\ answered = 0 /\ remoteAlive = TRUE /\ pipe = << >>
    /\ io = "idle" /\ lastRead = NoRead /\ lastCall = NoCall
    /\ lastClose = "none" /\ closeCalls = 0 /\ scopeCalls = 0
    /\ scopeEntered = FALSE /\ scopeExc = NoExc /\ raised = NoExc

NextLocate == Locate

SpecLocate == InitLocate /\ [][NextLocate]_vars

\* auto_shutdown when the caller of connect_to_existing does not pass it
\* (line 549)
ConnectAutoShutdownDefault == FALSE

\* ------------------------------------------------------------- properties
\* a Shutdown request written by the flow itself
LifecycleShutdownSent ==
    \E i \in 1..Len(sent) : sent[i] = [method |-> "Shutdown", by |-> "lifecycle"]

\* C1: when an exception leaves the caller's scope, the flow ends with the
\* channel closed, its handle released exactly once, no Shutdown request
\* written by the flow (whatever auto_shutdown is), and that same exception
\* leaving the flow.
C1_ScopeExceptionClosesOnce ==
    (pc = "done" /\ scopeExc # NoExc) =>
        /\ handle = "None"
        /\ released = 1
        /\ osHandles = 0
        /\ ~LifecycleShutdownSent
        /\ raised = scopeExc

\* C1 happens: the caller's own exception left a connect_to_existing scope
\* that had auto_shutdown set, after a call of the caller's
C1_Witness ==
    /\ pc = "done" /\ scopeExc = CallerError /\ raised = CallerError
    /\ auto_shutdown /\ scopeCalls > 0 /\ released = 1

\* C2: after every normal exit of the caller's scope the flow ends with the
\* channel closed, whatever auto_shutdown is and whatever the Shutdown call
\* did.
C2_NormalExitCloses ==
    (pc = "done" /\ scopeEntered /\ scopeExc = NoExc) => handle = "None"

\* C3: a Version call that returns anything but 1.0 ends the flow with
\* UnsupportedApiVersion: Version is the only request ever written, the
\* caller's scope is not entered, and the channel is closed.
C3_VersionMismatchStops ==
    (lastCall.method = "Version" /\ lastCall.result.kind = "return"
        /\ lastCall.result.value # "1.0") =>
        /\ pc = "done"
        /\ raised = UnsupportedApiVersion
        /\ sent = <<[method |-> "Version", by |-> "lifecycle"]>>
        /\ ~scopeEntered /\ scopeCalls = 0
        /\ handle = "None" /\ released = 1 /\ osHandles = 0

\* C3 happens: the remote reported version 2.0
C3_Witness ==
    /\ lastCall.method = "Version" /\ lastCall.result = Return("2.0")
    /\ pc = "done" /\ raised = UnsupportedApiVersion

\* C4: a Version or WaitForReady call that fails (RemoteError, parse or
\* transport failure) ends the flow with that failure, the channel closed
\* and its handle released exactly once, the caller's scope never entered.
C4_HandshakeFailureCloses ==
    (lastCall.method \in {"Version", "WaitForReady"} /\ lastCall.result.kind = "raise") =>
        /\ pc = "done"
        /\ raised = lastCall.result.exc
        /\ handle = "None" /\ released = 1 /\ osHandles = 0
        /\ ~scopeEntered /\ scopeCalls = 0

\* C4 happens: WaitForReady answered with a failure envelope
C4_Witness ==
    /\ lastCall.method = "WaitForReady"
    /\ lastCall.result = Raise(RemoteError("bad module"))
    /\ pc = "done" /\ released = 1

\* C5: phase 1 makes at most 5 CreateFile attempts.
C5_Phase1AtMostFive == attempts1 <= Phase1Attempts

\* C6: phase 2 in numbers. Open fails with ConnectionRefused only after
\* exactly timeout attempts, each followed by a sleep; open returns a channel
\* with its handle after k attempts, 1 <= k <= timeout, the k-1 failed ones
\* each followed by a sleep; and while phase 2 runs, the attempts made and
\* the attempts left add up to timeout.
C6_Phase2Attempts ==
    /\ (pc = "done" /\ raised = ConnectionRefused) =>
          (attempts2 = timeout /\ sleeps2 = timeout)
    /\ pc = "version" =>
          (attempts2 \in 1..timeout /\ sleeps2 = attempts2 - 1 /\ handle = "open")
    /\ pc = "phase2" =>
          (attempts2 + attempts_remaining = timeout /\ sleeps2 = attempts2)

\* C6 happens: three attempts, three sleeps, ConnectionRefused
C6_Witness ==
    /\ pc = "done" /\ raised = ConnectionRefused
    /\ timeout = 3 /\ attempts2 = 3 /\ sleeps2 = 3

\* C7: the sleeps of both phases together never exceed 5 + timeout.
C7_SleepBound == sleeps1 + sleeps2 <= Phase1Attempts + timeout

\* C8: every close() step: on an open channel it releases the handle and
\* returns True; on a closed one it returns False and changes nothing of the
\* channel.
C8_CloseIdempotent ==
    [][closeCalls' = closeCalls + 1 =>
         IF handle = "None"
         THEN /\ lastClose' = "False"
              /\ UNCHANGED <<handle, pid, osHandles, released>>
         ELSE /\ lastClose' = "True"
              /\ handle' = "None"
              /\ released' = released + 1
              /\ osHandles' = osHandles - 1]_vars

\* C8 happens: a second close() found the channel closed
C8_Witness ==
    /\ closeCalls >= 2 /\ lastClose = "False"
    /\ handle = "None" /\ released = 1

\* C9: the frame a call reads is the answer to the request that call wrote.
C9_ResponseMatchesRequest == lastRead # NoRead => lastRead.req = lastRead.call

\* C10: a call that decoded a well-formed response returns its Value when
\* Success is true and raises ValueError with its Error when Success is
\* false.
C10_EnvelopeUnwrapped ==
    lastCall.parsed =>
        IF lastCall.resp.Success = "true"
        THEN lastCall.result = Return(lastCall.resp.Value)
        ELSE lastCall.result = Raise(RemoteError(lastCall.resp.Error))

\* C10 happens: a failure envelope became the RemoteError with its message
C10_Witness ==
    /\ lastCall.parsed /\ lastCall.method = "GetModules"
    /\ lastCall.resp.Success = "false"
    /\ lastCall.result = Raise(RemoteError("bad module"))

\* the Channel is Closed: it was opened and close() has cleared its handle
Closed == opened > 0 /\ handle = "None"

\* C11: once the Channel is Closed it is never reused: it stays Closed, no
\* request frame is sent on it any more, and every call issued on it (by the
\* caller or by the lifecycle's automatic Shutdown) fails at once without
\* waiting for a response.
C11_ClosedNeverReused ==
    [][Closed =>
          /\ handle' = "None"
          /\ sent' = sent
          /\ io' = "idle"
          /\ (lastCall' # lastCall =>
                 /\ lastCall'.result = Raise(TransportFailure)
                 /\ ~lastCall'.parsed)]_vars

\* the caller closed the session inside the scope, the scope ended normally
\* and the automatic Shutdown failed on the closed Channel without a frame
C11_Witness ==
    /\ pc = "done" /\ Closed /\ remoteAlive
    /\ scopeExc = NoExc /\ auto_shutdown
    /\ lastCall.method = "Shutdown"
    /\ lastCall.result = Raise(TransportFailure)
    /\ ~LifecycleShutdownSent

\* the response frame to request k has been received whole
Received(k) ==
    /\ k <= answered
    /\ \A i \in 1..Len(pipe) : pipe[i].req # k

\* C12: a request frame is sent only when the request sent before it (and,
\* by induction, every earlier one) has had its response frame received or
\* its call has terminated with a failure.
C12_OneInFlight ==
    [][(Len(sent') > Len(sent) /\ Len(sent) > 0) =>
          (Received(Len(sent)) \/ lastCall.result.kind = "raise")]_vars

\* positions of the enumeration that hold a process with the target name
Matching(table) ==
    {i \in 1..Len(table) : table[i].name = "EarthVolumetricStudio.exe"}

\* the locator returned: the constructor is entered with its result in pid
Resolved == flow = "connect_to_existing" /\ pc = "phase1" /\ attempts1 = 0

\* the locator raised: the flow is over before any attempt to open the pipe
ResolveFailed == flow = "connect_to_existing" /\ pc = "done" /\ attempts1 = 0

\* C13 (amended): with the pid argument -1 the locator returns the pid of
\* the last enumerated process with the target name and raises
\* ProcessNotFound exactly when there is none; with a concrete pid it
\* returns that pid exactly when it names a running process (whatever its
\* name) and raises InvalidProcessId otherwise; it never returns the pid of
\* a process that is not running.
C13_ResolveLive ==
    /\ (Resolved /\ pidHint = -1) =>
           \E i \in Matching(procs) :
               /\ pid = procs[i].pid
               /\ \A j \in Matching(procs) : j <= i
    /\ (ResolveFailed /\ pidHint = -1) =>
           (Matching(procs) = {} /\ raised = ProcessNotFound)
    /\ (Resolved /\ pidHint # -1) =>
           (pid = pidHint /\ \E i \in 1..Len(procs) : procs[i].pid = pidHint)
    /\ (ResolveFailed /\ pidHint # -1) =>
           /\ raised = InvalidProcessId
           /\ \A i \in 1..Len(procs) : procs[i].pid # pidHint
    /\ Resolved => \E i \in 1..Len(procs) : procs[i].pid = pid

\* C13 as stated: the same, and the pid returned is never that of a process
\* without the target name.
C13_ResolveMatching ==
    /\ C13_ResolveLive
    /\ Resolved => \E i \in Matching(procs) : procs[i].pid = pid

\* two processes have the target name, another one is enumerated after
\* them, and the locator returned the second of the two
C13_Witness ==
    /\ Resolved /\ pidHint = -1
    /\ Cardinality(Matching(procs)) = 2
    /\ Len(procs) \notin Matching(procs)
    /\ \E i \in Matching(procs) : pid = procs[i].pid /\ i - 1 \in Matching(procs)

LifecycleShutdown == [method |-> "Shutdown", by |-> "lifecycle"]

\* C15 as stated: the flow has written Shutdown if and only if the caller's
\* scope ended normally and auto_shutdown is set.
C15_ShutdownIffNormalExit ==
    (pc = "done" /\ scopeEntered) =>
        (LifecycleShutdownSent <=> (scopeExc = NoExc /\ auto_shutdown))

\* C15 (amended): the flow calls shutdown() if and only if the caller's scope
\* ended normally and auto_shutdown is set; that call writes the Shutdown
\* request exactly when the channel is still open and served (it writes
\* nothing when the caller closed the session or the pipe is broken). When
\* written it is written once, with the channel not yet closed, as the last
\* request on the channel.
C15_ShutdownOnNormalExit ==
    [][/\ LifecycleShutdownSent' =>
              /\ scopeEntered' /\ scopeExc' = NoExc /\ auto_shutdown
              /\ pc' \in {"shutdown", "done"}
              /\ sent'[Len(sent')] = LifecycleShutdown
              /\ Cardinality({i \in 1..Len(sent') : sent'[i] = LifecycleShutdown}) = 1
              /\ (~LifecycleShutdownSent =>
                     /\ pc = "shutdown"
                     /\ handle = "open" /\ handle' = "open"
                     /\ closeCalls' = closeCalls)
       /\ (pc = "scope" /\ pc' # "scope") =>
              (pc' = "shutdown" <=> (scopeExc' = NoExc /\ auto_shutdown))
       /\ (pc = "shutdown" /\ io = "idle"
               /\ (sent' # sent \/ lastCall' # lastCall)) =>
              IF handle = "open" /\ remoteAlive
              THEN sent' = Append(sent, LifecycleShutdown)
              ELSE sent' = sent /\ pc' = "done"]_vars

\* start_new wrote Shutdown after the caller's calls and closed afterwards
C15_Witness ==
    /\ flow = "start_new" /\ pc = "done"
    /\ LifecycleShutdownSent /\ scopeCalls > 0
    /\ handle = "None" /\ released = 1 /\ raised = NoExc

\* the handshake requests as the flows write them
VersionRequest == [method |-> "Version", by |-> "lifecycle"]
WaitForReadyRequest == [method |-> "WaitForReady", by |-> "lifecycle"]

\* C16: start_new launches the child, then waits its one second, then opens
\* the channel, then asks Version, then WaitForReady exactly when
\* auto_wait_for_ready is set, and only then hands the session over: the
\* scope is entered only after Version returned 1.0 and, with
\* auto_wait_for_ready, WaitForReady succeeded, and no request of the
\* caller's is written before. In connect_to_existing a locator failure ends
\* the flow without any attempt to open the channel.
C16_HandshakeOrder ==
    [][/\ (flow = "start_new" /\ pc = "start" /\ pc' # pc) =>
              (pc' \in {"settle", "done"} /\ attempts1' = 0 /\ ~settled')
       /\ (flow = "start_new" /\ pc = "settle" /\ pc' # pc) =>
              (pc' = "phase1" /\ settled' /\ attempts1' = 0 /\ pid' = ChildPid)
       /\ (flow = "start_new" /\ attempts1' > 0) => settled'
       /\ Len(sent') >= 1 => (sent'[1] = VersionRequest /\ opened' = 1)
       /\ Len(sent') >= 2 =>
              (sent'[2] = WaitForReadyRequest <=> auto_wait_for_ready)
       /\ (pc = "version" /\ pc' \in {"wait_ready", "scope"}) =>
              /\ lastCall'.method = "Version"
              /\ lastCall'.result = Return("1.0")
              /\ (pc' = "wait_ready" <=> auto_wait_for_ready)
       /\ (~scopeEntered /\ scopeEntered') =>
              /\ pc' = "scope"
              /\ lastCall'.result.kind = "return"
              /\ IF auto_wait_for_ready
                 THEN /\ pc = "wait_ready"
                      /\ lastCall'.method = "WaitForReady"
                      /\ sent' = <<VersionRequest, WaitForReadyRequest>>
                 ELSE /\ pc = "version"
                      /\ sent' = <<VersionRequest>>
       /\ (Len(sent') > Len(sent) /\ sent'[Len(sent')].by = "caller") =>
              scopeEntered
       /\ (flow = "connect_to_existing" /\ pc = "start" /\ pc' # pc
               /\ ~_set_or_find_pid(procs, pidHint).ok) =>
              /\ pc' = "done"
              /\ raised' \in {ProcessNotFound, InvalidProcessId}
       /\ (flow = "connect_to_existing"
               /\ raised' \in {ProcessNotFound, InvalidProcessId}) =>
              (attempts1' = 0 /\ opened' = 0 /\ handle' = "None" /\ sent' = << >>)]_vars

\* start_new with auto_wait_for_ready has just handed the session over
C16_Witness ==
    /\ flow = "start_new" /\ pc = "scope" /\ scopeEntered
    /\ auto_wait_for_ready /\ settled /\ opened = 1
    /\ sent = <<VersionRequest, WaitForReadyRequest>>
    /\ lastCall.method = "WaitForReady" /\ lastCall.result.kind = "return"

\* C17: when a call on the open channel has returned or failed, it has
\* consumed one whole response frame: what it read is a message from its
\* first byte to its last, no part of a response is left unread in the
\* pipe, and a response longer than the 65536-byte buffer made it fail.
C17_WholeResponseConsumed ==
    (io = "idle" /\ lastRead # NoRead) =>
        /\ lastRead.from = 0 /\ lastRead.to = lastRead.size
        /\ \A i \in 1..Len(pipe) : pipe[i].off = 0
        /\ (lastRead.size > _bufferSize => lastCall.result.kind = "raise")

\* C18: check_cancel raises CanceledByUser if and only if the response its
\* one CheckCancel call consumed says Success with a true Value; Success
\* with false returns normally; a failure answer raises the remote's error,
\* not CanceledByUser; and a CanceledByUser that leaves the scope ends the
\* flow with the channel closed, nothing written by the flow to shut the
\* remote down, and CanceledByUser raised to the caller.
C18_CheckCancel ==
    /\ (lastCall.method = "CheckCancel" /\ io = "idle") =>
          /\ (CallerSees = Raise(CanceledByUser)) <=>
                 /\ lastCall.parsed
                 /\ lastCall.resp.Success = "true"
                 /\ Truthy(lastCall.resp.Value)
          /\ (lastCall.parsed /\ lastCall.resp.Success = "true"
                  /\ lastCall.resp.Value = "false") =>
                 CallerSees = Return("None")
          /\ (lastCall.parsed /\ lastCall.resp.Success = "false") =>
                 CallerSees = Raise(RemoteError(lastCall.resp.Error))
    /\ (pc = "done" /\ scopeExc = CanceledByUser) =>
          /\ handle = "None" /\ released = 1 /\ osHandles = 0
          /\ ~LifecycleShutdownSent
          /\ raised = CanceledByUser

\* the remote answered CheckCancel with true, check_cancel raised
\* CanceledByUser and it left a scope that had auto_shutdown set
C18_Witness ==
    /\ pc = "done" /\ scopeExc = CanceledByUser /\ auto_shutdown
    /\ lastCall.method = "CheckCancel" /\ lastCall.resp.Value = "true"
    /\ lastRead.req = lastRead.call
    /\ released = 1

\* C19: once a flow has ended, for whatever reason, the handle that phase 1
\* obtained has been released exactly once and no handle is left open.
C19_HandleReleased ==
    pc = "done" => (osHandles = 0 /\ released = opened)

\* the process the session was opened for
BoundPid ==
    IF flow = "start_new" THEN ChildPid ELSE _set_or_find_pid(procs, pidHint).pid

\* C20: a call, whether it returns a value or fails, leaves the channel as it
\* was: the same handle, bound to the same process, nothing released; so
\* after any number of answered calls in the scope the channel is still open
\* for the next one. Only close() changes the channel, from open to closed
\* with handle and pid cleared.
C20_CallLeavesChannel ==
    [][/\ ((lastCall' # lastCall \/ sent' # sent) /\ closeCalls' = closeCalls) =>
              UNCHANGED <<handle, pid, osHandles, released, opened>>
       /\ (pc = "scope" /\ (lastCall' # lastCall \/ sent' # sent)) =>
              UNCHANGED <<handle, pid, osHandles, released, closeCalls, pc>>
       /\ ((handle' # handle \/ pid' # pid) /\ opened' = opened
               /\ pc \notin {"start", "settle"}) =>
              /\ closeCalls' = closeCalls + 1
              /\ handle = "open" /\ handle' = "None"
              /\ pid' = 0
              /\ released' = released + 1
       /\ (pc' = "scope" /\ closeCalls' = 0) =>
              (handle' = "open" /\ pid' = BoundPid /\ osHandles' = 1)]_vars

\* the caller's second call got the remote's error answer to its own
\* request, after a first call, and the channel is open as before
C20_Witness ==
    /\ pc = "scope" /\ io = "idle" /\ scopeCalls = 2 /\ closeCalls = 0
    /\ lastCall.parsed
    /\ lastCall.result = Raise(RemoteError("bad module"))
    /\ lastRead.call = Len(sent) /\ lastRead.req = lastRead.call
    /\ handle = "open" /\ pid = BoundPid

\* C21: a constructor called with timeout <= 0 makes no phase-2 attempt and
\* raises ConnectionRefused as soon as phase 2 is reached, whatever the
\* remote would have answered; and the constructor returns a channel only
\* with timeout >= 1, after at least one phase-2 attempt, the last of which
\* succeeded (no sleep follows it).
C21_NoAttemptWithoutTimeout ==
    [][/\ timeout <= 0 =>
              /\ attempts2' = 0 /\ sleeps2' = 0
              /\ pc' # "version"
              /\ (pc = "phase2" /\ pc' # pc) =>
                     (pc' = "done" /\ raised' = ConnectionRefused)
              /\ pc' = "done" => raised' = ConnectionRefused
       /\ pc' = "version" =>
              /\ timeout >= 1
              /\ attempts2' >= 1
              /\ sleeps2' = attempts2' - 1
              /\ handle' = "open"
       /\ (pc = "phase2" /\ pc' = "version") =>
              (attempts2' = attempts2 + 1 /\ sleeps2' = sleeps2)]_vars

\* the pipe was there at the first CreateFile, the timeout was negative, and
\* the constructor raised ConnectionRefused without a phase-2 attempt
C21_Witness ==
    /\ pc = "done" /\ raised = ConnectionRefused
    /\ timeout < 0 /\ pipeAfter = 0
    /\ attempts1 = 1 /\ opened = 1 /\ attempts2 = 0 /\ sleeps2 = 0

====
